---- MODULE Spec2Model ----
(***************************************************************************)
(* petiteplatypus: `generate <vault-path>` scaffolds an Obsidian vault and *)
(* registers it in the per-user obsidian.json.  The model follows          *)
(* generateVault and the functions it calls, one action per step, with the *)
(* filesystem (directories, vault files, the registry file) as the shared  *)
(* state.  Two builds of the program are in the source: the one with the   *)
(* documents inline and /dev/urandom (src/main.go) and the one with        *)
(* embedded templates and crypto/rand (src/unnamed/part_000).              *)
(***************************************************************************)
EXTENDS Integers, Sequences, FiniteSets, TLC

(* ----------------------------- bounds ---------------------------------- *)

\* invocations of the tool in one behaviour
NumProcs == 2

\* bytes delivered by a short read of /dev/urandom
ShortRead == 4

Procs == 1..NumProcs

\* values a random byte takes in the model
RandBytes == {10, 255}

(* --------------------------- paths and trees --------------------------- *)

\* absolute paths are sequences of components, the root is << >>
Cwd == <<"tmp">>

ConfigDir == <<"home", ".config">>

\* the paths given on the command line
Paths ==
  { [abs |-> FALSE, elems |-> <<".", "v">>],
    [abs |-> TRUE,  elems |-> <<"tmp", "v">>] }

\* with several runs at once, a second vault as well
ConcPaths == Paths \cup { [abs |-> TRUE, elems |-> <<"tmp", "ww">>] }

RECURSIVE Clean(_)
Clean(elems) ==
  IF elems = << >> THEN << >>
  ELSE LET init == Clean(SubSeq(elems, 1, Len(elems) - 1))
           last == elems[Len(elems)]
       IN  IF last = "." THEN init
           ELSE IF last = ".."
                THEN (IF init = << >> THEN << >> ELSE SubSeq(init, 1, Len(init) - 1))
                ELSE Append(init, last)

\* filepath.Abs: an absolute path is cleaned, a relative one is joined to
\* the working directory
Abs(raw) == IF raw.abs THEN Clean(raw.elems) ELSE Clean(Cwd \o raw.elems)

\* filepath.Abs fails only when the working directory is needed and unknown
AbsCanFail(raw) == ~raw.abs

Join(dir, name) == Append(dir, name)

Prefixes(path) == { SubSeq(path, 1, k) : k \in 0..Len(path) }

\* os.Mkdir in its place: an existing directory is an error
MkdirAllExclusive(d, f, path) ==
  IF path \in d \/ \E q \in Prefixes(path) : q \in DOMAIN f
  THEN { [ok |-> FALSE, dirs |-> d] }
  ELSE { [ok |-> TRUE, dirs |-> d \cup Prefixes(path)] }

\* os.MkdirAll: nothing to do for an existing directory; an error when a
\* component is a file; otherwise the missing ancestors are made top-down and
\* a failing mkdir leaves the ones made before it.
MkdirAll(d, f, path) ==
  IF path \in d THEN { [ok |-> TRUE, dirs |-> d] }
  ELSE IF \E q \in Prefixes(path) : q \in DOMAIN f
       THEN { [ok |-> FALSE, dirs |-> d] }
       ELSE { [ok |-> TRUE, dirs |-> d \cup Prefixes(path)] }
            \cup { [ok |-> FALSE,
                    dirs |-> d \cup { q \in Prefixes(path) : Len(q) < k }]
                   : k \in { Len(q) : q \in Prefixes(path) \ d } }

\* os.WriteFile on a vault file: the file is replaced, or the open fails and
\* the file is as it was.  Writing to a directory, or into a missing
\* directory, always fails.
Put(f, path, content) ==
  [q \in DOMAIN f \cup {path} |-> IF q = path THEN content ELSE f[q]]

WriteFile(d, f, path, content) ==
  IF path \in d \/ SubSeq(path, 1, Len(path) - 1) \notin d
  THEN { [ok |-> FALSE, files |-> f] }
  ELSE { [ok |-> TRUE,  files |-> Put(f, path, content)],
         [ok |-> FALSE, files |-> f] }

(* ------------------------------ documents ------------------------------ *)

\* graph.json left out of the map
ConfigFilesWithoutGraph ==
  {"app.json", "appearance.json", "core-plugins.json", "workspace.json"}

ConfigFiles ==
  {"app.json", "appearance.json", "core-plugins.json", "graph.json", "workspace.json"}

InitialFiles == {"Welcome.md"}

\* the Template Source: the content the program holds for a document
Template(name) == "template:" \o name

(* ----------------------------- vault ids ------------------------------- *)

IDBytes == 8

\* ASCII code of a lowercase hexadecimal digit
HexDigit(n) == IF n < 10 THEN 48 + n ELSE 87 + n

\* fmt.Sprintf("%x", bytes): two digits per byte
Hex(bytes) ==
  [i \in 1..(2 * Len(bytes)) |->
     IF i % 2 = 1 THEN HexDigit(bytes[(i + 1) \div 2] \div 16)
                  ELSE HexDigit(bytes[i \div 2] % 16)]

\* make([]byte, 8) with the first n bytes overwritten by the read
Filled(b, n) == [i \in 1..IDBytes |-> IF i <= n THEN b ELSE 0]

(* ---------------------------- the registry ----------------------------- *)

\* VaultConfig.Ts: the literal the program stores (an int64, kept as its digits)
ExampleTs == "1757173820641"

\* a Go map: nil, or a function
NilMap == [nil |-> TRUE, m |-> << >>]

EmptyMap == [nil |-> FALSE, m |-> << >>]

\* var config ObsidianConfig
ZeroConfig == [Vaults |-> NilMap, OpenSchemes |-> NilMap]

DefaultSchemes == [s \in {"vscode", "chrome-extension"} |-> TRUE]

\* The bytes of obsidian.json.  kind: "empty" (zero length), "garbage" (not
\* JSON), "mistyped" (JSON whose shape is not the registry's) or "object".  A
\* member of an object is absent, null or an object given as the set of its
\* <<key, value>> pairs; extra holds the top-level keys the program does not
\* know.
\* len is the length of the file in bytes.
NoField == [state |-> "absent", members |-> {}]

RawBytes(kind, len) ==
  [kind |-> kind, len |-> len, vaults |-> NoField, openSchemes |-> NoField,
   extra |-> {}]

NoBytes == RawBytes("empty", 0)

\* obsidian.json on disk: whether it is there, whether this user may read it,
\* and its bytes
Absent == [exists |-> FALSE, readable |-> TRUE, bytes |-> NoBytes]

FileOf(bytes) == [exists |-> TRUE, readable |-> TRUE, bytes |-> bytes]

\* a file whose mode keeps this user from reading it
Unreadable(bytes) == [exists |-> TRUE, readable |-> FALSE, bytes |-> bytes]

\* every vault read as open
DecodeVaultOpen(o) == [Path |-> o.path, Ts |-> o.ts, Open |-> TRUE]

\* struct tags of VaultConfig: Path/path, Ts/ts, Open/open
DecodeVault(o) == [Path |-> o.path, Ts |-> o.ts, Open |-> o.open]

\* Open without its place in the document
EncodeVaultOpenLost(v) == [path |-> v.Path, ts |-> v.Ts, open |-> FALSE]

\* every record written with the timestamp of the new one
EncodeVaultNewTs(v) == [path |-> v.Path, ts |-> ExampleTs, open |-> v.Open]

EncodeVault(v) == [path |-> v.Path, ts |-> v.Ts, open |-> v.Open]

Keys(members) == { e[1] : e \in members }

ValueOf(members, k) == (CHOOSE e \in members : e[1] = k)[2]

\* a parse error swallowed: the registry starts over
UnmarshalReset(bytes) == [ok |-> TRUE, config |-> ZeroConfig]

\* json.Unmarshal(data, &config): a member that is absent or null leaves the
\* map nil, unknown members are dropped, anything but an object of the right
\* shape is an error
Unmarshal(bytes) ==
  IF bytes.kind # "object" THEN [ok |-> FALSE, config |-> ZeroConfig]
  ELSE [ok |-> TRUE,
        config |->
          [Vaults |->
             IF bytes.vaults.state # "object" THEN NilMap
             ELSE [nil |-> FALSE,
                   m |-> [k \in Keys(bytes.vaults.members) |->
                            DecodeVault(ValueOf(bytes.vaults.members, k))]],
           OpenSchemes |->
             IF bytes.openSchemes.state # "object" THEN NilMap
             ELSE [nil |-> FALSE,
                   m |-> [k \in Keys(bytes.openSchemes.members) |->
                            ValueOf(bytes.openSchemes.members, k)]]]]

\* len(s) of the strings that occur in the model
StrLen(s) ==
  CASE s = "tmp" -> 3
    [] s = "v" -> 1
    [] s = "." -> 1
    [] s = "ww" -> 2
    [] s = "old" -> 3
    [] s = "vscode" -> 6
    [] s = "chrome-extension" -> 16

\* the sum of the values of a function
RECURSIVE Sum(_)
Sum(f) ==
  IF DOMAIN f = {} THEN 0
  ELSE LET x == CHOOSE y \in DOMAIN f : TRUE
       IN  f[x] + Sum([y \in DOMAIN f \ {x} |-> f[y]])

\* a path as the program holds it: "/" before every component
PathLen(path) == Sum([i \in DOMAIN path |-> 1 + StrLen(path[i])])

BoolLen(b) == IF b THEN 4 ELSE 5

\* bytes of the indented document, line by line:
\*   {                          2
\*     "vaults": {              14      ("vaults": {}, is 16, null is 18)
\*       "<16 digits>": {       26
\*         "path": "<path>",    18 + PathLen
\*         "ts": 1757173820641, 27
\*         "open": true         15 + BoolLen
\*       },                     5, a comma between members, a newline
\*     },                       5
\*     "openSchemes": {         19      ("openSchemes": {} is 20, null is 22)
\*       "<name>": true,        9 + len(name) + BoolLen, a comma between members
\*     }                        4
\*   }                          1
MapLen(m, open, close, empty, null, members) ==
  IF m.nil THEN null
  ELSE IF DOMAIN m.m = {} THEN empty
  ELSE open + Sum(members) + (Cardinality(DOMAIN m.m) - 1) + close

IndentLen(config) ==
  2 + MapLen(config.Vaults, 14, 5, 16, 18,
             [k \in DOMAIN config.Vaults.m |->
                92 + PathLen(config.Vaults.m[k].Path)
                   + BoolLen(config.Vaults.m[k].Open)])
    + MapLen(config.OpenSchemes, 19, 4, 20, 22,
             [k \in DOMAIN config.OpenSchemes.m |->
                9 + StrLen(k) + BoolLen(config.OpenSchemes.m[k])])
    + 1

\* json.MarshalIndent(config, "", "  "): both members are always written, a
\* nil map as null
Marshal(config) ==
  [kind |-> "object",
   len |-> IndentLen(config),
   vaults |->
     IF config.Vaults.nil THEN [state |-> "null", members |-> {}]
     ELSE [state |-> "object",
           members |-> { <<k, EncodeVault(config.Vaults.m[k])>> :
                           k \in DOMAIN config.Vaults.m }],
   openSchemes |->
     IF config.OpenSchemes.nil THEN [state |-> "null", members |-> {}]
     ELSE [state |-> "object",
           members |-> { <<k, config.OpenSchemes.m[k]>> :
                           k \in DOMAIN config.OpenSchemes.m }],
   extra |-> {}]

\* the scheme map made like the vault map
InitMapsNoDefaults(config) ==
  [Vaults |-> IF config.Vaults.nil THEN EmptyMap ELSE config.Vaults,
   OpenSchemes |-> IF config.OpenSchemes.nil THEN EmptyMap ELSE config.OpenSchemes]

\* the default schemes added to whatever scheme map was read
InitMapsMergeDefaults(config) ==
  [Vaults |-> IF config.Vaults.nil THEN EmptyMap ELSE config.Vaults,
   OpenSchemes |->
     [nil |-> FALSE,
      m |-> [k \in DOMAIN config.OpenSchemes.m \cup DOMAIN DefaultSchemes |->
               IF k \in DOMAIN config.OpenSchemes.m THEN config.OpenSchemes.m[k]
               ELSE DefaultSchemes[k]]]]

\* "Initialize maps if they're nil"
InitMaps(config) ==
  [Vaults |-> IF config.Vaults.nil THEN EmptyMap ELSE config.Vaults,
   OpenSchemes |-> IF config.OpenSchemes.nil
                   THEN [nil |-> FALSE, m |-> DefaultSchemes]
                   ELSE config.OpenSchemes]

\* the insert guarded by `if _, ok := config.Vaults[vaultID]; !ok`
AddVaultKeepExisting(config, id, path) ==
  IF id \in DOMAIN config.Vaults.m THEN config
  ELSE [config EXCEPT !.Vaults.m = Put(@, id, [Path |-> path, Ts |-> ExampleTs, Open |-> TRUE])]

\* one record for a path: the records of the same path are dropped first
AddVaultByPath(config, id, path) ==
  LET others == { k \in DOMAIN config.Vaults.m : config.Vaults.m[k].Path # path }
  IN  [config EXCEPT !.Vaults.m =
         Put([k \in others |-> @[k]], id, [Path |-> path, Ts |-> ExampleTs, Open |-> TRUE])]

\* config.Vaults[vaultID] = VaultConfig{Path: vaultPath, Ts: ..., Open: true}
AddVault(config, id, path) ==
  [config EXCEPT !.Vaults.m = Put(@, id, [Path |-> path, Ts |-> ExampleTs, Open |-> TRUE])]

RegistryDir == Join(ConfigDir, "obsidian")

(* ------------------------------- builds -------------------------------- *)

AllTemplates == ConfigFiles \cup InitialFiles

\* rand: where generateVaultID reads its bytes; embedded: the documents the
\* binary can produce (the inline build holds them as literals, the embed
\* build holds whatever templates/* matched when it was built)
Builds ==
  { [rand |-> "urandom", embedded |-> AllTemplates],
    [rand |-> "crypto",  embedded |-> AllTemplates],
    [rand |-> "crypto",  embedded |-> AllTemplates \ {"graph.json"}],
    [rand |-> "crypto",  embedded |-> AllTemplates \ {"Welcome.md"}] }

\* generateVaultID: the outcomes of one call
GenerateVaultID(b) ==
  IF b.rand = "urandom"
  THEN { [ok |-> FALSE, id |-> << >>, chain |-> <<"open /dev/urandom">>],
         [ok |-> FALSE, id |-> << >>, chain |-> <<"read /dev/urandom">>] }
       \cup { [ok |-> TRUE, id |-> Hex(Filled(x, n)), chain |-> << >>] :
                x \in RandBytes, n \in {IDBytes, ShortRead} }
  ELSE { [ok |-> FALSE, id |-> << >>,
          chain |-> <<"failed to generate random bytes", "crypto/rand">>] }
       \cup { [ok |-> TRUE, id |-> Hex(Filled(x, IDBytes)), chain |-> << >>] :
                x \in RandBytes }

(* ------------------------------- state --------------------------------- *)

VARIABLES
  build,         \* the build of the program that is installed
  dirs,          \* the directories on disk
  files,         \* the vault files on disk: path -> content
  regFile,       \* obsidian.json
  pc,            \* where each invocation is in generateVault
  vaultPath,     \* args[0]
  absVaultPath,  \* generateVault's absVaultPath
  vaultID,       \* generateVault's vaultID
  written,       \* the documents the running createXFiles loop has written
  config,        \* updateGlobalConfig's config
  data,          \* updateGlobalConfig's data, the bytes to write
  err,           \* the error generateVault returned: its chain of messages
  log,           \* the phases an invocation has completed, in order
  pre            \* the disk as it was when the invocation started

vars ==
  <<build, dirs, files, regFile, pc, vaultPath, absVaultPath, vaultID,
    written, config, data, err, log, pre>>

locals == <<vaultPath, absVaultPath, vaultID, written, config, data>>

disk == <<dirs, files, regFile>>

(* the disk before the first invocation *)

\* a vault that is registered already, under an id a read of the random
\* source can give again
ForeignID == Hex(Filled(10, IDBytes))

ForeignRegistry ==
  [kind |-> "object",
   len |-> 150,
   vaults |-> [state |-> "object",
               members |-> { <<ForeignID, [path |-> <<"tmp", "old">>,
                                           ts |-> "1700000000000",
                                           open |-> FALSE]>> }],
   openSchemes |-> [state |-> "object", members |-> { <<"vscode", FALSE>> }],
   extra |-> {"frame"}]

NoDisk == [dirs |-> {}, files |-> << >>, regFile |-> Absent]

CleanTree ==
  [dirs |-> {<< >>, <<"tmp">>, <<"home">>}, files |-> << >>]

UsedTree ==
  [dirs |-> {<< >>, <<"tmp">>, <<"home">>, <<"tmp", "v">>, <<"tmp", "v", ".obsidian">>},
   files |-> [q \in {<<"tmp", "v", "notes.md">>, <<"tmp", "v", ".obsidian", "app.json">>}
                |-> "older content"]]

\* the disks the model starts from: a tree and a registry file
\* {"vaults":null,"openSchemes":null}
NullMapsRegistry ==
  [kind |-> "object",
   len |-> 34,
   vaults |-> [state |-> "null", members |-> {}],
   openSchemes |-> [state |-> "null", members |-> {}],
   extra |-> {}]

\* {"vaults":{},"openSchemes":{}}
EmptyMapsRegistry ==
  [kind |-> "object",
   len |-> 30,
   vaults |-> [state |-> "object", members |-> {}],
   openSchemes |-> [state |-> "object", members |-> {}],
   extra |-> {}]

InitDisks ==
  ({CleanTree} \X {Absent, FileOf(RawBytes("garbage", 9)), FileOf(ForeignRegistry),
                    FileOf(NullMapsRegistry), FileOf(EmptyMapsRegistry),
                    Unreadable(ForeignRegistry)})
  \cup
  ({UsedTree} \X {Absent, FileOf(NoBytes), FileOf(RawBytes("mistyped", 14)),
                   FileOf(RawBytes("object", 2))})

Init ==
  /\ build \in Builds
  /\ \E t \in InitDisks :
       /\ regFile = t[2]
       /\ dirs = t[1].dirs \cup (IF regFile.exists THEN Prefixes(RegistryDir) ELSE {})
       /\ files = t[1].files
  /\ pc = [p \in Procs |-> "idle"]
  /\ vaultPath = [p \in Procs |-> [abs |-> TRUE, elems |-> << >>]]
  /\ absVaultPath = [p \in Procs |-> << >>]
  /\ vaultID = [p \in Procs |-> << >>]
  /\ written = [p \in Procs |-> {}]
  /\ config = [p \in Procs |-> ZeroConfig]
  /\ data = [p \in Procs |-> NoBytes]
  /\ err = [p \in Procs |-> << >>]
  /\ log = [p \in Procs |-> << >>]
  /\ pre = [p \in Procs |-> NoDisk]

(* --------------------------- generateVault ----------------------------- *)

\* createInitialFiles never called
ThenWithoutInitialFiles(l) ==
  CASE l = "abs"                 -> "mkdirVault"
    [] l = "mkdirVault"          -> "mkdirObsidian"
    [] l = "mkdirObsidian"       -> "generateVaultID"
    [] l = "generateVaultID"     -> "createObsidianFiles"
    [] l = "createObsidianFiles" -> "userConfigDir"
    [] l = "createInitialFiles"  -> "userConfigDir"
    [] l = "userConfigDir"       -> "mkdirConfig"
    [] l = "mkdirConfig"         -> "readConfig"
    [] l = "readConfig"          -> "openConfig"
    [] l = "openConfig"          -> "writeConfig"
    [] l = "writeConfig"         -> "done"

\* the statement that follows a successful step, in the order of the code
Then(l) ==
  CASE l = "abs"                 -> "mkdirVault"
    [] l = "mkdirVault"          -> "mkdirObsidian"
    [] l = "mkdirObsidian"       -> "generateVaultID"
    [] l = "generateVaultID"     -> "createObsidianFiles"
    [] l = "createObsidianFiles" -> "createInitialFiles"
    [] l = "createInitialFiles"  -> "userConfigDir"
    [] l = "userConfigDir"       -> "mkdirConfig"
    [] l = "mkdirConfig"         -> "readConfig"
    [] l = "readConfig"          -> "openConfig"
    [] l = "openConfig"          -> "writeConfig"
    [] l = "writeConfig"         -> "done"

\* the phase of generateVault a statement belongs to
PhaseOf(l) ==
  CASE l = "abs"                                -> "resolve path"
    [] l \in {"mkdirVault", "mkdirObsidian"}     -> "create directories"
    [] l = "generateVaultID"                     -> "generate ID"
    [] l = "createObsidianFiles"                 -> "write config documents"
    [] l = "createInitialFiles"                  -> "write starter document"
    [] l \in {"userConfigDir", "mkdirConfig", "readConfig", "openConfig", "writeConfig"}
                                                 -> "register"
    [] OTHER                                     -> "none"

\* one message for every step
WrapMsgSame(l) == "failed to create vault directory"

\* the message generateVault wraps a step's error in
WrapMsg(l) ==
  CASE l = "abs"                 -> "failed to get absolute path"
    [] l = "mkdirVault"          -> "failed to create vault directory"
    [] l = "mkdirObsidian"       -> "failed to create .obsidian directory"
    [] l = "generateVaultID"     -> "failed to generate vault ID"
    [] l = "createObsidianFiles" -> "failed to create obsidian config files"
    [] l = "createInitialFiles"  -> "failed to create initial files"
    [] OTHER                     -> "failed to update global config"

\* a step succeeded: go on with the next statement
Proceed(p) ==
  /\ pc' = [pc EXCEPT ![p] = Then(pc[p])]
  /\ log' = [log EXCEPT ![p] = IF PhaseOf(Then(pc[p])) # PhaseOf(pc[p])
                               THEN Append(@, PhaseOf(pc[p])) ELSE @]
  /\ UNCHANGED err

\* `return nil` where the error should be returned
FailSilently(p, chain) ==
  /\ pc' = [pc EXCEPT ![p] = "done"]
  /\ UNCHANGED <<err, log>>

\* a step failed: return fmt.Errorf("<phase>: %w", err)
Fail(p, chain) ==
  /\ pc' = [pc EXCEPT ![p] = "done"]
  /\ err' = [err EXCEPT ![p] = <<WrapMsg(pc[p])>> \o chain]
  /\ UNCHANGED log

\* `petiteplatypus generate <vault-path>`; the tool is run again only after
\* the run before it has ended
Start(p) ==
  /\ pc[p] = "idle"
  /\ \A q \in Procs : q < p => pc[q] = "exited"
  /\ \E raw \in Paths : vaultPath' = [vaultPath EXCEPT ![p] = raw]
  /\ pc' = [pc EXCEPT ![p] = "abs"]
  /\ pre' = [pre EXCEPT ![p] = [dirs |-> dirs, files |-> files, regFile |-> regFile]]
  /\ UNCHANGED <<build, disk, absVaultPath, vaultID, written, config, data, err, log>>

\* main returns: the process and its memory are gone
Exit(p) ==
  /\ pc[p] = "done"
  /\ pc' = [pc EXCEPT ![p] = "exited"]
  /\ vaultPath' = [vaultPath EXCEPT ![p] = [abs |-> TRUE, elems |-> << >>]]
  /\ absVaultPath' = [absVaultPath EXCEPT ![p] = << >>]
  /\ vaultID' = [vaultID EXCEPT ![p] = << >>]
  /\ written' = [written EXCEPT ![p] = {}]
  /\ config' = [config EXCEPT ![p] = ZeroConfig]
  /\ data' = [data EXCEPT ![p] = NoBytes]
  /\ err' = [err EXCEPT ![p] = << >>]
  /\ log' = [log EXCEPT ![p] = << >>]
  /\ pre' = [pre EXCEPT ![p] = NoDisk]
  /\ UNCHANGED <<build, disk>>

ResolvePath(p) ==
  /\ pc[p] = "abs"
  /\ \/ /\ absVaultPath' = [absVaultPath EXCEPT ![p] = Abs(vaultPath[p])]
        /\ Proceed(p)
     \/ /\ AbsCanFail(vaultPath[p])
        /\ Fail(p, <<"getwd">>)
        /\ UNCHANGED absVaultPath
  /\ UNCHANGED <<build, disk, vaultPath, vaultID, written, config, data, pre>>

Mkdir(p, path) ==
  /\ \E r \in MkdirAll(dirs, files, path) :
       /\ dirs' = r.dirs
       /\ IF r.ok THEN Proceed(p) ELSE Fail(p, <<"mkdir">>)
  /\ UNCHANGED <<build, files, regFile, locals, pre>>

MkdirVault(p) ==
  /\ pc[p] = "mkdirVault"
  /\ Mkdir(p, absVaultPath[p])

MkdirObsidian(p) ==
  /\ pc[p] = "mkdirObsidian"
  /\ Mkdir(p, Join(absVaultPath[p], ".obsidian"))

NewVaultID(p) ==
  /\ pc[p] = "generateVaultID"
  /\ \E r \in GenerateVaultID(build) :
       IF r.ok
       THEN vaultID' = [vaultID EXCEPT ![p] = r.id] /\ Proceed(p)
       ELSE UNCHANGED vaultID /\ Fail(p, r.chain)
  /\ UNCHANGED <<build, disk, vaultPath, absVaultPath, written, config, data, pre>>

\* one turn of `for filename, ... := range files`: the map is ranged over in
\* any order; the loop ends after the last document
WriteDocs(p, dir, names) ==
  /\ \E name \in names \ written[p] :
       \/ /\ name \notin build.embedded
          /\ Fail(p, <<"failed to read embedded template file", name>>)
          /\ UNCHANGED <<files, written>>
       \/ /\ name \in build.embedded
          /\ \E r \in WriteFile(dirs, files, Join(dir, name), Template(name)) :
               /\ files' = r.files
               /\ IF ~r.ok
                  THEN Fail(p, <<"failed to write", name>>) /\ UNCHANGED written
                  ELSE IF written[p] \cup {name} = names
                       THEN written' = [written EXCEPT ![p] = {}] /\ Proceed(p)
                       ELSE /\ written' = [written EXCEPT ![p] = @ \cup {name}]
                            /\ UNCHANGED <<pc, err, log>>
  /\ UNCHANGED <<build, dirs, regFile, vaultPath, absVaultPath, vaultID, config, data, pre>>

CreateObsidianFiles(p) ==
  /\ pc[p] = "createObsidianFiles"
  /\ WriteDocs(p, Join(absVaultPath[p], ".obsidian"), ConfigFiles)

CreateInitialFiles(p) ==
  /\ pc[p] = "createInitialFiles"
  /\ WriteDocs(p, absVaultPath[p], InitialFiles)

(* ------------------------- updateGlobalConfig -------------------------- *)

\* the argument as given on the command line: updateGlobalConfig(vaultPath, vaultID)
RegisteredPathRaw(p) == vaultPath[p].elems

\* the call updateGlobalConfig(absVaultPath, vaultID)
RegisteredPath(p) == absVaultPath[p]

\* UserConfigDirectory()
UserConfigDir(p) ==
  /\ pc[p] = "userConfigDir"
  /\ \/ Proceed(p)
     \/ Fail(p, <<"failed to get user config directory", "$HOME is not defined">>)
  /\ UNCHANGED <<build, disk, locals, pre>>

\* the registry file created along with its directory
MkdirConfigAndFile(p) ==
  /\ pc[p] = "mkdirConfig"
  /\ \E r \in MkdirAll(dirs, files, RegistryDir) :
       /\ dirs' = r.dirs
       /\ regFile' = IF r.ok /\ ~regFile.exists THEN FileOf(NoBytes) ELSE regFile
       /\ IF r.ok THEN Proceed(p)
                  ELSE Fail(p, <<"failed to create obsidian config directory", "mkdir">>)
  /\ UNCHANGED <<build, files, locals, pre>>

\* os.MkdirAll(configDirPath, 0o755)
MkdirConfig(p) ==
  /\ pc[p] = "mkdirConfig"
  /\ \E r \in MkdirAll(dirs, files, RegistryDir) :
       /\ dirs' = r.dirs
       /\ IF r.ok THEN Proceed(p)
                  ELSE Fail(p, <<"failed to create obsidian config directory", "mkdir">>)
  /\ UNCHANGED <<build, files, regFile, locals, pre>>

\* every error of the read taken for "there is no file"
ReadFileErrIsNotExist(file) ==
  IF file.exists /\ file.readable
  THEN { [err |-> "", data |-> file.bytes] }
  ELSE { [err |-> "ErrNotExist", data |-> NoBytes] }

\* os.ReadFile(obsidianConfigPath): the outcomes of one call
ReadFile(file) ==
  { [err |-> "input/output error", data |-> NoBytes] }
  \cup (IF ~file.exists THEN { [err |-> "ErrNotExist", data |-> NoBytes] }
        ELSE IF ~file.readable THEN { [err |-> "permission denied", data |-> NoBytes] }
        ELSE { [err |-> "", data |-> file.bytes] })

\* os.ReadFile and json.Unmarshal: what `config` is after the if/else chain,
\* for a read that did not fail with anything but ErrNotExist
LoadConfig(file) ==
  IF file.exists THEN Unmarshal(file.bytes) ELSE [ok |-> TRUE, config |-> ZeroConfig]

\* from the read to json.MarshalIndent: nothing here touches the disk
ReadConfig(p) ==
  /\ pc[p] = "readConfig"
  /\ \E r \in ReadFile(regFile) :
       LET parsed == IF r.err = "" THEN Unmarshal(r.data)
                                   ELSE [ok |-> TRUE, config |-> ZeroConfig]
       IN  IF r.err \notin {"", "ErrNotExist"}
           THEN /\ Fail(p, <<"failed to read config file", r.err>>)
                /\ UNCHANGED <<config, data>>
           ELSE IF ~parsed.ok
           THEN /\ Fail(p, <<"failed to parse existing config", "json">>)
                /\ UNCHANGED <<config, data>>
           ELSE LET c == AddVault(InitMaps(parsed.config), vaultID[p], RegisteredPath(p))
                IN  /\ config' = [config EXCEPT ![p] = c]
                    /\ data' = [data EXCEPT ![p] = Marshal(c)]
                    /\ Proceed(p)
  /\ UNCHANGED <<build, disk, vaultPath, absVaultPath, vaultID, written, pre>>

\* os.WriteFile opens with O_WRONLY|O_CREATE|O_TRUNC: the file is empty from
\* here until the write
OpenConfig(p) ==
  /\ pc[p] = "openConfig"
  /\ \/ /\ regFile' = [regFile EXCEPT !.exists = TRUE, !.bytes = NoBytes]
        /\ Proceed(p)
     \/ /\ Fail(p, <<"failed to write config file", "open">>)
        /\ UNCHANGED regFile
  /\ UNCHANGED <<build, dirs, files, locals, pre>>

\* the file opened with O_APPEND: the write goes behind what is there
OverwriteAppend(old, new) ==
  IF old.len = 0 THEN new ELSE RawBytes("garbage", old.len + new.len)

\* the write starts at offset 0 of whatever the file holds by now: bytes that
\* another writer put beyond the end of ours stay behind them
Overwrite(old, new) ==
  IF new.len >= old.len THEN new ELSE RawBytes("garbage", old.len)

WriteConfig(p) ==
  /\ pc[p] = "writeConfig"
  /\ \/ /\ regFile' = [regFile EXCEPT !.bytes = Overwrite(@, data[p])]
        /\ Proceed(p)
     \/ /\ Fail(p, <<"failed to write config file", "write">>)
        /\ UNCHANGED regFile
  /\ UNCHANGED <<build, dirs, files, locals, pre>>

(* --------------------------- specifications ---------------------------- *)

Step(p) ==
  \/ ResolvePath(p)
  \/ MkdirVault(p)
  \/ MkdirObsidian(p)
  \/ NewVaultID(p)
  \/ CreateObsidianFiles(p)
  \/ CreateInitialFiles(p)
  \/ UserConfigDir(p)
  \/ MkdirConfig(p)
  \/ ReadConfig(p)
  \/ OpenConfig(p)
  \/ WriteConfig(p)

Next == \E p \in Procs : Start(p) \/ Step(p) \/ Exit(p)

Spec == Init /\ [][Next]_vars

\* Several runs of the tool at once.  Each has written its vault and is about
\* to call updateGlobalConfig; from there on the runs share obsidian.json.
VaultFiles(root) ==
  { Join(Join(root, ".obsidian"), name) : name \in ConfigFiles }
  \cup { Join(root, name) : name \in InitialFiles }

VaultContent(path) == Template(path[Len(path)])

InitConc ==
  /\ build = [rand |-> "crypto", embedded |-> AllTemplates]
  /\ regFile \in {Absent, FileOf(ForeignRegistry)}
  /\ vaultPath \in [Procs -> ConcPaths]
  /\ absVaultPath = [p \in Procs |-> Abs(vaultPath[p])]
  /\ vaultID \in [Procs -> { r.id : r \in { o \in GenerateVaultID(build) : o.ok } }]
  /\ dirs = CleanTree.dirs
            \cup UNION { Prefixes(Join(absVaultPath[p], ".obsidian")) : p \in Procs }
            \cup (IF regFile.exists THEN Prefixes(RegistryDir) ELSE {})
  /\ files = [q \in UNION { VaultFiles(absVaultPath[p]) : p \in Procs } |->
                VaultContent(q)]
  /\ pc = [p \in Procs |-> "userConfigDir"]
  /\ written = [p \in Procs |-> {}]
  /\ config = [p \in Procs |-> ZeroConfig]
  /\ data = [p \in Procs |-> NoBytes]
  /\ err = [p \in Procs |-> << >>]
  /\ log = [p \in Procs |->
              <<"resolve path", "create directories", "generate ID",
                "write config documents", "write starter document">>]
  /\ pre = [p \in Procs |-> [dirs |-> dirs, files |-> files, regFile |-> regFile]]

NextConc ==
  \E p \in Procs :
    \/ UserConfigDir(p)
    \/ MkdirConfig(p)
    \/ ReadConfig(p)
    \/ OpenConfig(p)
    \/ WriteConfig(p)

SpecConc == InitConc /\ [][NextConc]_vars

(* ------------------------------ properties ----------------------------- *)

Running(p) == pc[p] \notin {"idle", "exited"}

Succeeded(p) == pc[p] = "done" /\ err[p] = << >>

Failed(p) == pc[p] = "done" /\ err[p] # << >>

\* the error kinds of the registry update, by the message of the failing step
RegistryCorrupt(e) == Len(e) >= 2 /\ e[2] = "failed to parse existing config"

BeforeTheParse(e) ==
  /\ Len(e) >= 2
  /\ e[2] \in {"failed to get user config directory",
               "failed to create obsidian config directory",
               "failed to read config file"}

\* obsidian.json as a reader finds it
Registry == LoadConfig(regFile)

\* a file that is there and is not a registry document
NotARegistry(file) == file.exists /\ file.bytes.kind # "object"

IsARegistry(file) == file.exists /\ file.bytes.kind = "object"

\* C1: when the registry file exists and does not parse, a run that gets to
\* parse it fails with the parse error (RegistryCorrupt), no run gets past the
\* parse, and from the start of the run to its end the file is what it was.
C1_CorruptRegistryKept ==
  \A p \in Procs :
    (Running(p) /\ NotARegistry(pre[p].regFile)) =>
      /\ regFile = pre[p].regFile
      /\ pc[p] \notin {"openConfig", "writeConfig"}
      /\ pc[p] = "done" => err[p] # << >>
      /\ (Failed(p) /\ Len(log[p]) = 5 /\ ~BeforeTheParse(err[p])) =>
           RegistryCorrupt(err[p])

C1_Witness ==
  \E p \in Procs :
    /\ Failed(p) /\ RegistryCorrupt(err[p])
    /\ NotARegistry(pre[p].regFile) /\ regFile = pre[p].regFile

\* C2: when there is no registry file, the missing file is not an error, and
\* a run that succeeds leaves a registry with exactly one vault record, under
\* the run's vault id, and the scheme map {vscode: true, chrome-extension: true}.
C2_MissingRegistry ==
  \A p \in Procs :
    (Running(p) /\ ~pre[p].regFile.exists) =>
      /\ ~RegistryCorrupt(err[p])
      /\ Succeeded(p) =>
           /\ Registry.ok /\ regFile.exists
           /\ ~Registry.config.Vaults.nil
           /\ DOMAIN Registry.config.Vaults.m = {vaultID[p]}
           /\ ~Registry.config.OpenSchemes.nil
           /\ DOMAIN Registry.config.OpenSchemes.m = {"vscode", "chrome-extension"}
           /\ \A k \in DOMAIN Registry.config.OpenSchemes.m :
                Registry.config.OpenSchemes.m[k] = TRUE

C2_Witness ==
  \E p \in Procs :
    /\ Succeeded(p) /\ ~pre[p].regFile.exists
    /\ Cardinality(DOMAIN Registry.config.Vaults.m) = 1

\* C3: after a successful register(vaultPath, vaultID) with no other writer,
\* the registry read back from the file has vaultID in its vault map, with the
\* path equal to vaultPath and open = true.
C3_RoundTrip ==
  \A p \in Procs :
    Succeeded(p) =>
      /\ Registry.ok
      /\ vaultID[p] \in DOMAIN Registry.config.Vaults.m
      /\ Registry.config.Vaults.m[vaultID[p]].Path = RegisteredPath(p)
      /\ Registry.config.Vaults.m[vaultID[p]].Open = TRUE

C3_Witness ==
  \E p \in Procs :
    /\ Succeeded(p) /\ IsARegistry(pre[p].regFile)
    /\ Registry.config.Vaults.m[vaultID[p]].Open

\* C4: two runs with different vault ids register at once on a disk with no
\* registry.  When neither read the other's record and both return success,
\* the file never holds both records: it holds exactly the record of one of
\* the two, or the longer document's tail behind the shorter one.
SawNothing(p) == DOMAIN config[p].Vaults.m \subseteq {vaultID[p]}

C4_LostUpdate ==
  \A p, q \in Procs :
    ( /\ p # q /\ vaultID[p] # vaultID[q]
      /\ Succeeded(p) /\ Succeeded(q)
      /\ ~pre[p].regFile.exists /\ ~pre[q].regFile.exists
      /\ SawNothing(p) /\ SawNothing(q)
      /\ \A r \in Procs \ {p, q} : pc[r] = "userConfigDir" ) =>
      \/ /\ Registry.ok
         /\ \E w \in {p, q} :
              /\ DOMAIN Registry.config.Vaults.m = {vaultID[w]}
              /\ Registry.config.Vaults.m[vaultID[w]].Path = absVaultPath[w]
      \/ /\ regFile.bytes.kind = "garbage"
         /\ data[p].len # data[q].len

C4_Witness ==
  \E p, q \in Procs :
    /\ p # q /\ vaultID[p] # vaultID[q]
    /\ Succeeded(p) /\ Succeeded(q)
    /\ ~pre[p].regFile.exists
    /\ SawNothing(p) /\ SawNothing(q)
    /\ Registry.ok
    /\ DOMAIN Registry.config.Vaults.m = {vaultID[q]}

\* C5 as claimed: after a successful run the vault root holds exactly
\* Welcome.md and the configuration directory exactly the five documents,
\* each with the content of its template.
FilesIn(dir) == { q \in DOMAIN files : SubSeq(q, 1, Len(q) - 1) = dir }

ExpectedConfigDocs ==
  { "app.json", "appearance.json", "core-plugins.json", "graph.json",
    "workspace.json" }

C5_ExactlyTheDocuments ==
  \A p \in Procs :
    Succeeded(p) =>
      LET root == absVaultPath[p]
          cfg  == Join(root, ".obsidian")
      IN  /\ FilesIn(root) = { Join(root, "Welcome.md") }
          /\ FilesIn(cfg) = { Join(cfg, n) : n \in ExpectedConfigDocs }
          /\ \A q \in FilesIn(root) \cup FilesIn(cfg) : files[q] = Template(q[Len(q)])

\* C5 amended: after a successful run the vault root holds Welcome.md and
\* the configuration directory the five documents, each with the content of
\* its template; the files on disk are those of before the run and these six,
\* and a file of before with another name has the content it had.
C5_TheDocumentsAndWhatWasThere ==
  \A p \in Procs :
    Succeeded(p) =>
      LET root == absVaultPath[p]
          cfg  == Join(root, ".obsidian")
          docs == { Join(root, "Welcome.md") } \cup { Join(cfg, n) : n \in ExpectedConfigDocs }
      IN  /\ \A q \in docs : q \in DOMAIN files /\ files[q] = Template(q[Len(q)])
          /\ DOMAIN files = DOMAIN pre[p].files \cup docs
          /\ \A q \in DOMAIN pre[p].files \ docs : files[q] = pre[p].files[q]

C5_Witness ==
  \E p \in Procs :
    /\ Succeeded(p)
    /\ <<"tmp", "v", "notes.md">> \in DOMAIN files
    /\ files[<<"tmp", "v", ".obsidian", "app.json">>] = Template("app.json")
    /\ pre[p].files[<<"tmp", "v", ".obsidian", "app.json">>] = "older content"

\* C6: when a run succeeds, the registry file has an entry under the vault id
\* the run reports, its path is the absolute path the run reports (the working
\* directory joined to a relative argument), and with no registry before the
\* run it is the only entry.
C6_ReportedVaultRegistered ==
  \A p \in Procs :
    Succeeded(p) =>
      /\ Registry.ok
      /\ vaultID[p] \in DOMAIN Registry.config.Vaults.m
      /\ Registry.config.Vaults.m[vaultID[p]].Path = absVaultPath[p]
      /\ absVaultPath[p] = <<"tmp", "v">>
      /\ ~pre[p].regFile.exists =>
           Cardinality(DOMAIN Registry.config.Vaults.m) = 1

C6_Witness ==
  \E p \in Procs :
    /\ Succeeded(p) /\ ~vaultPath[p].abs /\ ~pre[p].regFile.exists
    /\ Registry.config.Vaults.m[vaultID[p]].Path = <<"tmp", "v">>

\* C7: the phases of a run happen in the order resolve path, create
\* directories, generate ID, write config documents, write starter document,
\* register: the completed phases are always a prefix of that list, the run is
\* in the phase after them with their results in place, and a successful run
\* has completed all six.
PhaseOrder ==
  <<"resolve path", "create directories", "generate ID",
    "write config documents", "write starter document", "register">>

Prefix(s, t) == Len(s) <= Len(t) /\ s = SubSeq(t, 1, Len(s))

HasDirs(p) ==
  {absVaultPath[p], Join(absVaultPath[p], ".obsidian")} \subseteq dirs

HasDocs(p, dir, names) ==
  \A n \in names :
    Join(dir, n) \in DOMAIN files /\ files[Join(dir, n)] = Template(n)

C7_PhaseOrder ==
  \A p \in Procs :
    Running(p) =>
      /\ Prefix(log[p], PhaseOrder)
      /\ pc[p] # "done" => PhaseOf(pc[p]) = PhaseOrder[Len(log[p]) + 1]
      /\ Succeeded(p) => log[p] = PhaseOrder
      /\ Len(log[p]) >= 1 => absVaultPath[p] # << >>
      /\ Len(log[p]) >= 2 => HasDirs(p)
      /\ Len(log[p]) >= 3 => vaultID[p] # << >>
      /\ Len(log[p]) >= 4 => HasDocs(p, Join(absVaultPath[p], ".obsidian"), ExpectedConfigDocs)
      /\ Len(log[p]) >= 5 => HasDocs(p, absVaultPath[p], {"Welcome.md"})
      /\ Len(log[p]) >= 6 => vaultID[p] \in DOMAIN Registry.config.Vaults.m

C7_Witness ==
  \E p \in Procs :
    /\ pc[p] = "done" /\ log[p] = PhaseOrder
    /\ HasDocs(p, absVaultPath[p], {"Welcome.md"})

\* C8: when a phase fails no later phase runs, the error returned is the
\* failing step's error wrapped in the message of that phase, and what the
\* phases before it made, and what was on disk before the run, is still there.
PhaseMsgs(phase) ==
  CASE phase = "resolve path"           -> {"failed to get absolute path"}
    [] phase = "create directories"     -> {"failed to create vault directory",
                                            "failed to create .obsidian directory"}
    [] phase = "generate ID"            -> {"failed to generate vault ID"}
    [] phase = "write config documents" -> {"failed to create obsidian config files"}
    [] phase = "write starter document" -> {"failed to create initial files"}
    [] phase = "register"               -> {"failed to update global config"}

SameDocs(p, dir, names) ==
  \A n \in names :
    /\ Join(dir, n) \in DOMAIN files <=> Join(dir, n) \in DOMAIN pre[p].files
    /\ Join(dir, n) \in DOMAIN files => files[Join(dir, n)] = pre[p].files[Join(dir, n)]

C8_FailureStopsTheRun ==
  \A p \in Procs :
    Failed(p) =>
      LET k == Len(log[p])
      IN
          /\ k < 6
          /\ Len(err[p]) >= 2
          /\ err[p][1] \in PhaseMsgs(PhaseOrder[k + 1])
          /\ k < 2 => vaultID[p] = << >>
          /\ k < 3 => SameDocs(p, Join(Abs(vaultPath[p]), ".obsidian"), ExpectedConfigDocs)
          /\ k < 4 => SameDocs(p, Abs(vaultPath[p]), {"Welcome.md"})
          /\ k < 5 => regFile = pre[p].regFile
          /\ k >= 2 => HasDirs(p)
          /\ k >= 4 => HasDocs(p, Join(absVaultPath[p], ".obsidian"), ExpectedConfigDocs)
          /\ k >= 5 => HasDocs(p, absVaultPath[p], {"Welcome.md"})
          /\ pre[p].dirs \subseteq dirs
          /\ DOMAIN pre[p].files \subseteq DOMAIN files

C8_Witness ==
  \E p \in Procs :
    /\ Failed(p) /\ Len(log[p]) = 4
    /\ err[p][1] = "failed to create initial files"
    /\ <<"tmp", "v", "notes.md">> \notin DOMAIN files
    /\ HasDocs(p, Join(absVaultPath[p], ".obsidian"), ExpectedConfigDocs)

\* C9: a run ends either in success with all six phases completed or in one
\* error that names the phase that failed, never in success with a phase
\* undone and never in an error with all phases completed.
AllPhaseMsgs == UNION { PhaseMsgs(PhaseOrder[i]) : i \in DOMAIN PhaseOrder }

C9_SuccessOrOneError ==
  \A p \in Procs :
    pc[p] = "done" =>
      /\ err[p] = << >> <=> log[p] = PhaseOrder
      /\ err[p] # << >> =>
           /\ err[p][1] \in AllPhaseMsgs
           /\ \A i \in 2..Len(err[p]) : err[p][i] \notin AllPhaseMsgs

C9_Witness ==
  \E p \in Procs :
    /\ pc[p] = "done" /\ err[p] # << >>
    /\ Len(log[p]) = 5
    /\ err[p][1] = "failed to update global config"

\* C10: when the vault root and its configuration directory exist at the
\* start of a run, the two directory-creation steps do not fail and the tree
\* after them is the tree before them.
MkdirMsgs ==
  {"failed to create vault directory", "failed to create .obsidian directory"}

C10_MkdirIdempotent ==
  \A p \in Procs :
    ( /\ Running(p)
      /\ {Abs(vaultPath[p]), Join(Abs(vaultPath[p]), ".obsidian")} \subseteq pre[p].dirs ) =>
      /\ pc[p] \in {"abs", "mkdirVault", "mkdirObsidian", "generateVaultID"} =>
           dirs = pre[p].dirs
      /\ Failed(p) => err[p][1] \notin MkdirMsgs

\* the second run, after the first made the directories on a clean disk
C10_Witness ==
  \E p \in Procs :
    /\ p > 1 /\ pc[p] = "generateVaultID"
    /\ Join(absVaultPath[p], ".obsidian") \in pre[p].dirs
    /\ <<"tmp", "v", "notes.md">> \notin DOMAIN files
    /\ dirs = pre[p].dirs

\* the vault ids and the records of a registry file, as they are in its bytes
KnownIDs(file) == IF IsARegistry(file) THEN Keys(file.bytes.vaults.members) ELSE {}

RecordOf(file, id) == ValueOf(file.bytes.vaults.members, id)

\* the errors of register that come from the environment
RegisterIOErrors ==
  {"failed to get user config directory",
   "failed to create obsidian config directory",
   "failed to read config file",
   "failed to write config file"}

\* C11: when a run registers a vault id that is a key of the registry already,
\* the key is no cause of failure (register fails only on an error of the
\* environment), and after success the record under the key is the new one,
\* {path: the run's vault path, open: true}, and the registry has the keys it
\* had, neither more nor fewer.
C11_SameIDReplaced ==
  \A p \in Procs :
    (Running(p) /\ vaultID[p] \in KnownIDs(pre[p].regFile)) =>
      /\ (Failed(p) /\ Len(log[p]) = 5) => err[p][2] \in RegisterIOErrors
      /\ Succeeded(p) =>
           /\ IsARegistry(regFile)
           /\ KnownIDs(regFile) = KnownIDs(pre[p].regFile)
           /\ RecordOf(regFile, vaultID[p]).path = absVaultPath[p]
           /\ RecordOf(regFile, vaultID[p]).open = TRUE

C11_Witness ==
  \E p \in Procs :
    /\ Succeeded(p) /\ vaultID[p] \in KnownIDs(pre[p].regFile)
    /\ RecordOf(pre[p].regFile, vaultID[p]).path = <<"tmp", "old">>
    /\ RecordOf(pre[p].regFile, vaultID[p]).open = FALSE
    /\ RecordOf(regFile, vaultID[p]).path = <<"tmp", "v">>
    /\ Cardinality(KnownIDs(regFile)) = 1

\* C12 as claimed: with runs one after another, a record that is in the
\* registry under a vault id has the same path, timestamp and open flag in
\* every later state in which the registry holds that id.
C12_RecordNeverMutated ==
  \A p \in Procs : \A k \in KnownIDs(pre[p].regFile) :
    (Running(p) /\ k \in KnownIDs(regFile)) =>
      RecordOf(regFile, k) = RecordOf(pre[p].regFile, k)

\* C12 amended: the same, for every vault id but the one the run registers;
\* the record under the run's own id is replaced.
C12_OtherRecordsNeverMutated ==
  \A p \in Procs : \A k \in KnownIDs(pre[p].regFile) :
    (Running(p) /\ k \in KnownIDs(regFile) /\ k # vaultID[p]) =>
      RecordOf(regFile, k) = RecordOf(pre[p].regFile, k)

C12_Witness ==
  \E p \in Procs : \E k \in KnownIDs(pre[p].regFile) :
    /\ Succeeded(p) /\ k # vaultID[p]
    /\ KnownIDs(regFile) = {k, vaultID[p]}
    /\ RecordOf(regFile, k) = RecordOf(pre[p].regFile, k)
    /\ RecordOf(regFile, k).open = FALSE

\* C13: a run against a path that the records of the registry carry already,
\* drawing a vault id the registry does not have, adds one record and keeps
\* every record that was there: from no registry file the first run leaves
\* one record, and the n-th run in a row leaves n, all with the same path.
C13_NoDedupByPath ==
  \A p \in Procs :
    ( /\ Succeeded(p)
      /\ vaultID[p] \notin KnownIDs(pre[p].regFile)
      /\ \A k \in KnownIDs(pre[p].regFile) :
           RecordOf(pre[p].regFile, k).path = absVaultPath[p] ) =>
      /\ IsARegistry(regFile)
      /\ KnownIDs(regFile) = KnownIDs(pre[p].regFile) \cup {vaultID[p]}
      /\ Cardinality(KnownIDs(regFile)) = Cardinality(KnownIDs(pre[p].regFile)) + 1
      /\ ~pre[p].regFile.exists => Cardinality(KnownIDs(regFile)) = 1
      /\ \A k \in KnownIDs(regFile) : RecordOf(regFile, k).path = absVaultPath[p]

\* the last of NumProcs runs in a row, each with an id of its own
C13_Witness ==
  \E p \in Procs :
    /\ p = NumProcs /\ Succeeded(p)
    /\ Cardinality(KnownIDs(pre[p].regFile)) = NumProcs - 1
    /\ Cardinality(KnownIDs(regFile)) = NumProcs
    /\ \A k \in KnownIDs(regFile) : RecordOf(regFile, k).path = <<"tmp", "v">>

\* a member of the registry document that is an object, not absent or null
Present(field) == field.state = "object"

\* C14: after a successful run both maps are objects in the file; when the
\* vault map was absent or null (or there was no file) it holds the run's
\* record alone; when the scheme map was absent or null (or there was no file)
\* it is {vscode: true, chrome-extension: true}; a scheme map that was
\* present, the empty one too, is in the file as it was.
C14_DefaultsOnlyWhenAbsent ==
  \A p \in Procs :
    Succeeded(p) =>
      LET before == pre[p].regFile
      IN  /\ IsARegistry(regFile)
          /\ Present(regFile.bytes.vaults) /\ Present(regFile.bytes.openSchemes)
          /\ (~before.exists \/ ~Present(before.bytes.vaults)) =>
                KnownIDs(regFile) = {vaultID[p]}
          /\ (~before.exists \/ ~Present(before.bytes.openSchemes)) =>
                regFile.bytes.openSchemes.members =
                  { <<"vscode", TRUE>>, <<"chrome-extension", TRUE>> }
          /\ (before.exists /\ Present(before.bytes.openSchemes)) =>
                regFile.bytes.openSchemes.members = before.bytes.openSchemes.members

\* a registry whose scheme map was present and empty
C14_Witness ==
  \E p \in Procs :
    /\ Succeeded(p)
    /\ pre[p].regFile.exists
    /\ Present(pre[p].regFile.bytes.openSchemes)
    /\ pre[p].regFile.bytes.openSchemes.members = {}
    /\ Present(regFile.bytes.openSchemes)
    /\ regFile.bytes.openSchemes.members = {}

\* the ids made of IDBytes bytes that all came from the random source
FullReadIDs == { Hex(Filled(x, IDBytes)) : x \in RandBytes }

LowerHex == (48..57) \cup (97..102)

\* C15: a run has a vault id only from a read that filled all 8 bytes: the id
\* is 16 lowercase hexadecimal digits and is the hex of 8 bytes of the random
\* source; a read that gave fewer bytes ends the run with the error of the
\* generate-ID phase instead.
C15_IDFromEightBytes ==
  \A p \in Procs :
    vaultID[p] # << >> =>
      /\ Len(vaultID[p]) = 2 * IDBytes
      /\ \A i \in DOMAIN vaultID[p] : vaultID[p][i] \in LowerHex
      /\ vaultID[p] \in FullReadIDs

\* a registry file that is there and that the read cannot open
NotReadable(file) == file.exists /\ ~file.readable

RegistryReadError(e) == Len(e) >= 2 /\ e[2] = "failed to read config file"

BeforeTheRead(e) ==
  /\ Len(e) >= 2
  /\ e[2] \in {"failed to get user config directory",
               "failed to create obsidian config directory"}

\* C16: when the registry file is there and cannot be read, a run that gets
\* to read it fails with the read error (RegistryReadError); no run builds a
\* registry in memory or gets to the write, and the file is what it was.  A
\* run that fails with the read error on any file has built nothing and has
\* left the file as it was.
C16_ReadErrorKept ==
  \A p \in Procs :
    /\ (Running(p) /\ NotReadable(pre[p].regFile)) =>
         /\ regFile = pre[p].regFile
         /\ pc[p] \notin {"openConfig", "writeConfig"}
         /\ config[p] = ZeroConfig /\ data[p] = NoBytes
         /\ pc[p] = "done" => err[p] # << >>
         /\ (Failed(p) /\ Len(log[p]) = 5 /\ ~BeforeTheRead(err[p])) =>
              RegistryReadError(err[p])
    /\ (Failed(p) /\ RegistryReadError(err[p])) =>
         /\ regFile = pre[p].regFile
         /\ config[p] = ZeroConfig /\ data[p] = NoBytes

C16_Witness ==
  \E p \in Procs :
    /\ Failed(p) /\ RegistryReadError(err[p])
    /\ NotReadable(pre[p].regFile) /\ regFile = pre[p].regFile
    /\ err[p][3] = "permission denied"

\* C17: after a successful run on a well-formed registry, with no other
\* writer, every vault record under another id than the run's and every
\* entry of the scheme map is in the file with the value it had, and the
\* vault ids in the file are those of before and the run's.
C17_RestOfRegistryKept ==
  \A p \in Procs :
    (Succeeded(p) /\ IsARegistry(pre[p].regFile)) =>
      /\ IsARegistry(regFile)
      /\ \A e \in pre[p].regFile.bytes.vaults.members :
           e[1] # vaultID[p] => e \in regFile.bytes.vaults.members
      /\ pre[p].regFile.bytes.openSchemes.members \subseteq regFile.bytes.openSchemes.members
      /\ KnownIDs(regFile) = KnownIDs(pre[p].regFile) \cup {vaultID[p]}

C17_Witness ==
  \E p \in Procs :
    /\ Succeeded(p) /\ IsARegistry(pre[p].regFile)
    /\ ForeignID \in KnownIDs(pre[p].regFile) /\ vaultID[p] # ForeignID
    /\ <<"vscode", FALSE>> \in pre[p].regFile.bytes.openSchemes.members
    /\ <<"vscode", FALSE>> \in regFile.bytes.openSchemes.members
    /\ RecordOf(regFile, ForeignID).path = <<"tmp", "old">>
    /\ Cardinality(KnownIDs(regFile)) = Cardinality(KnownIDs(pre[p].regFile)) + 1

RegistryWriteError(e) == Len(e) >= 2 /\ e[2] = "failed to write config file"

\* C18: with runs one after another, the registry file is what it was at the
\* start of the run as long as the run is in a phase before registration or
\* in a step of register before its write of the file, and after the run
\* failed with any error but that of the write itself.
C18_RegistryOnlyInLastPhase ==
  \A p \in Procs :
    /\ (Running(p) /\ Len(log[p]) < 5) => regFile = pre[p].regFile
    /\ pc[p] \in {"userConfigDir", "mkdirConfig", "readConfig", "openConfig"} =>
         regFile = pre[p].regFile
    /\ (Failed(p) /\ ~RegistryWriteError(err[p])) => regFile = pre[p].regFile

\* a run that made its vault and failed on the registry's directory
C18_Witness ==
  \E p \in Procs :
    /\ Failed(p) /\ Len(log[p]) = 5
    /\ err[p][2] = "failed to create obsidian config directory"
    /\ HasDocs(p, absVaultPath[p], {"Welcome.md"})
    /\ ~pre[p].regFile.exists /\ regFile = pre[p].regFile

\* C19: runs register at once on a registry that is absent or well-formed.
\* Once all have returned success, the file is the document of one of them,
\* the registry that run read with its own record added, and that run's
\* record is in the file.
C19_LastWriterWins ==
  (\A p \in Procs : Succeeded(p)) =>
    \E w \in Procs :
      /\ regFile.exists /\ regFile.bytes = data[w]
      /\ vaultID[w] \in KnownIDs(regFile)

\* C20: runs register at once on a registry that is absent or well-formed.
\* No run fails with the parse error (RegistryCorrupt): no read finds the file
\* cut short or half written by the write of another run.
C20_NoTornReads ==
  \A p \in Procs : ~RegistryCorrupt(err[p])

====
